---- MODULE Spec2Model ----
(***************************************************************************)
(* Model of the TLS reconciler of controllers/tls/manager.go: one          *)
(* reconciliation pass reads the trust secret, decides on rotation,        *)
(* regenerates and commits the material, then fans out the CA bundle to    *)
(* the two admission configurations, the tenant CRD and the operator pods  *)
(* as concurrent tasks joined by an errgroup.                              *)
(*                                                                         *)
(* The API server is modelled as a store of versioned objects: a Get       *)
(* returns the current object, an Update is accepted only when the         *)
(* submitted resourceVersion is the stored one, and other actors mutate    *)
(* or delete objects between any two requests of the reconciler.           *)
(*                                                                         *)
(* Time has two components: day (whole days, the granularity of the        *)
(* certificate arithmetic; it advances between passes) and clock (the      *)
(* instant within the run; two successive readings of time.Now() that are  *)
(* separated by a request are strictly increasing).                        *)
(***************************************************************************)
EXTENDS Integers, Sequences, FiniteSets, TLC

VARIABLES
    autoGen,     \* r.Configuration.GenerateCertificates()
    day,         \* time.Now(), in whole days
    clock,       \* time.Now(), the instant (strictly increasing readings)
    store,       \* the API server: resource name -> stored object
    serial,      \* randomness of cert.GenerateCertificateAuthority: next fresh key pair
    pc,          \* position of Reconcile
    certSecret,  \* Reconcile's local certSecret
    t,           \* Reconcile's local t, handed to CreateOrUpdate
    caBundle,    \* Reconcile's local caBundle
    leaderPod,   \* getOperatorPods' local leaderPod
    task,        \* the goroutines of the errgroup: task name -> state
    groupErr,    \* errgroup.Group.err (set once, by the first failing task)
    result,      \* what the last pass returned
    passesLeft,  \* passes the trigger source will still deliver
    extLeft,     \* mutations the other actors may still make
    passStart,   \* history: clock reading when the current pass started
    disturbed,   \* history: another actor acted since the current pass started
    quiet,       \* history: the previous pass succeeded undisturbed and nothing changed since
    startEmpty,  \* history: the current pass read a secret without any field
    written      \* history: the objects the current pass has changed

vars == <<autoGen, day, clock, store, serial, pc, certSecret, t, caBundle, leaderPod, task,
          groupErr, result, passesLeft, extLeft, passStart, disturbed, quiet, startEmpty,
          written>>

(***************************************************************************)
(* Bounds of the model.                                                    *)
(***************************************************************************)
MaxPass == 2
MaxExt == 1
MaxDay == 1

(***************************************************************************)
(* Program constants (days).                                               *)
(***************************************************************************)
certificateExpirationThreshold == 3
certificateReconciliationThreshold == 4
certificateValidity == 180
\* retry.DefaultBackoff.Steps and retry.DefaultRetry.Steps
DefaultBackoffSteps == 4
DefaultRetrySteps == 5

(***************************************************************************)
(* Byte strings: PEM blocks are identified by what they encode.            *)
(***************************************************************************)
Bytes(k, s, na) == [kind |-> k, serial |-> s, notAfter |-> na]
NoBytes == Bytes("nil", 0, 0)
Junk == Bytes("junk", 0, 0)
CrtPem(s, na) == Bytes("crt", s, na)
KeyPem(s) == Bytes("key", s, 0)
CaPem(s) == Bytes("ca", s, 0)

TLSCertKey == "tls.crt"
TLSPrivateKeyKey == "tls.key"
ServiceAccountRootCAKey == "ca.crt"

\* secret.Data[k] of a Go map: the zero value when the key is absent
Field(data, k) == IF k \in DOMAIN data THEN data[k] ELSE NoBytes

Triple(s, na) ==
    (TLSCertKey :> CrtPem(s, na)) @@ (TLSPrivateKeyKey :> KeyPem(s)) @@
    (ServiceAccountRootCAKey :> CaPem(s))

(***************************************************************************)
(* Objects of the API server.                                              *)
(***************************************************************************)
Consumers == {"mw", "vw", "crd"}
Pods == {"p1", "p2"}
Hostname == "p1"
Names == {"secret"} \cup Consumers \cup Pods
Tasks == Consumers \cup Pods

NoObj == [exists |-> FALSE, rv |-> 0, other |-> 0, body |-> <<>>]
Obj(b) == [exists |-> TRUE, rv |-> 1, other |-> 0, body |-> b]

Hook(svc, b) == [svc |-> svc, caBundle |-> b]
ExternalCA == Bytes("ca", -1, 0)

NoConversion == [strategy |-> "None", service |-> "", caBundle |-> NoBytes, versions |-> <<>>]
WebhookConversion(b) ==
    [strategy |-> "Webhook", service |-> "capsule-webhook-service/convert:443",
     caBundle |-> b, versions |-> <<"v1alpha1", "v1beta1">>]

PodBody(l, m) == [labels |-> l, marker |-> m]

(***************************************************************************)
(* The API server's requests (controller-runtime client).                  *)
(***************************************************************************)
\* client.Update: the error it returns for object obj submitted under name n
UpdateErr(n, obj) ==
    IF ~store[n].exists THEN "NotFound"
    ELSE IF obj.rv # store[n].rv THEN "Conflict"
    ELSE "nil"

\* client.Update: the object stored by an accepted update (a write that changes
\* nothing leaves the resourceVersion as it is)
Written(n, obj) ==
    IF obj.body = store[n].body /\ obj.other = store[n].other
    THEN store[n]
    ELSE [obj EXCEPT !.rv = store[n].rv + 1]

\* client.Create: the error it returns for object obj submitted under name n
CreateErr(n, obj) ==
    IF obj.rv # 0 THEN "BadRequest"
    ELSE IF store[n].exists THEN "AlreadyExists"
    ELSE "nil"

(***************************************************************************)
(* pkg/cert: parsing and validation of stored material.                    *)
(***************************************************************************)
\* cert.GetCertificateWithPrivateKeyFromBytes: TRUE when both blocks parse
ParsesPair(crt, key) == crt.kind = "crt" /\ key.kind = "key"

\* cert.ValidateCertificate: TRUE when the key pairs with the certificate and
\* the time remaining before NotAfter is not below the threshold
ValidateCertificate(crt, key, threshold) ==
    /\ crt.serial = key.serial
    /\ crt.notAfter - day >= threshold

\* cert.GetCertificateFromBytes: TRUE when the block parses
ParsesCert(crt) == crt.kind = "crt"

(***************************************************************************)
(* Reconciler.shouldUpdateCertificate                                      *)
(***************************************************************************)
\* faulty variant: a certificate that is still valid is regenerated as well
shouldUpdateCertificate_NeverValid(secret) == autoGen

\* faulty variant: the configuration switch is not consulted
shouldUpdateCertificate_IgnoreSwitch(secret) ==
    \/ ServiceAccountRootCAKey \notin DOMAIN secret.body
    \/ ~ParsesPair(Field(secret.body, TLSCertKey), Field(secret.body, TLSPrivateKeyKey))
    \/ ~ValidateCertificate(Field(secret.body, TLSCertKey),
                            Field(secret.body, TLSPrivateKeyKey),
                            certificateExpirationThreshold)

shouldUpdateCertificate(secret) ==
    IF ~autoGen THEN FALSE
    ELSE IF ServiceAccountRootCAKey \notin DOMAIN secret.body THEN TRUE
    ELSE IF ~ParsesPair(Field(secret.body, TLSCertKey), Field(secret.body, TLSPrivateKeyKey))
         THEN TRUE
    ELSE IF ~ValidateCertificate(Field(secret.body, TLSCertKey),
                                 Field(secret.body, TLSPrivateKeyKey),
                                 certificateExpirationThreshold)
         THEN TRUE
    ELSE FALSE

(***************************************************************************)
(* Initial state.                                                          *)
(***************************************************************************)
NoTask == [st |-> "off", tries |-> 0, obj |-> NoObj, err |-> "nil"]
NoResult == [err |-> "none", requeue |-> FALSE, after |-> 0]

\* what the trust secret may hold when the operator starts
InitialData ==
    { <<>>,
      Triple(1, 0), Triple(1, 2), Triple(1, 3), Triple(1, 10),
      [Triple(1, 10) EXCEPT ![TLSPrivateKeyKey] = KeyPem(0)],
      [Triple(1, 10) EXCEPT ![TLSCertKey] = Junk],
      (TLSCertKey :> CrtPem(1, 10)) @@ (TLSPrivateKeyKey :> KeyPem(1)) }

InitialStore(d, absent) ==
    [n \in Names |->
        CASE n \in absent -> NoObj
          [] n = "secret" -> Obj(d)
          [] n = "vw" -> Obj(<<Hook(TRUE, NoBytes), Hook(FALSE, ExternalCA), Hook(TRUE, CaPem(0))>>)
          [] n = "mw" -> Obj(<<Hook(FALSE, ExternalCA), Hook(TRUE, CaPem(0))>>)
          [] n = "crd" -> Obj(NoConversion)
          [] OTHER -> Obj(PodBody("capsule", 0))]

InitWith(configs, budget, count) ==
    /\ \E c \in configs : autoGen = c[1] /\ store = InitialStore(c[2], c[3])
    /\ day = 0
    /\ clock = 0
    /\ serial = 2
    /\ pc = "idle"
    /\ certSecret = NoObj
    /\ t = NoObj
    /\ caBundle = NoBytes
    /\ leaderPod = NoObj
    /\ task = [n \in Tasks |-> NoTask]
    /\ groupErr = "nil"
    /\ result = NoResult
    /\ passesLeft = count
    /\ extLeft = budget
    /\ passStart = 0
    /\ disturbed = FALSE
    /\ quiet = FALSE
    /\ startEmpty = FALSE
    /\ written = {}

\* the configurations the interference of other actors is studied from
BaseConfigs ==
    {<<TRUE, <<>>, {}>>, <<TRUE, Triple(1, 2), {}>>, <<TRUE, Triple(1, 10), {}>>,
     <<FALSE, Triple(1, 10), {}>>}

Init == InitWith(BaseConfigs, MaxExt, 1)

InitQuiet == InitWith(BOOLEAN \X InitialData \X {{}}, 0, MaxPass)

(***************************************************************************)
(* Reconciler.Reconcile, main goroutine.                                   *)
(***************************************************************************)
\* the history of the objects a pass has changed: object n was just written
Wrote(n) == written' = IF store'[n] # store[n] THEN written \cup {n} ELSE written

\* return reconcile.Result{...}, err
Return(err, rq, after) ==
    /\ pc' = "idle"
    /\ result' = [err |-> err, requeue |-> rq, after |-> after]
    /\ quiet' = (err = "nil" /\ ~disturbed)

Continue(p) ==
    /\ pc' = p
    /\ UNCHANGED <<result, quiet>>

\* faulty variant: the bundle is taken from the secret as stored before the commit
ExtractBundle_Stored(cs) ==
    IF ServiceAccountRootCAKey \in DOMAIN store["secret"].body
    THEN caBundle' = store["secret"].body[ServiceAccountRootCAKey] /\ Continue("getOperatorPods")
    ELSE caBundle' = NoBytes /\ Return("MissingCA", FALSE, 0)

\* faulty variant: a secret without CA certificate is passed over with an empty bundle
ExtractBundle_Lenient(cs) ==
    /\ caBundle' = Field(cs.body, ServiceAccountRootCAKey)
    /\ Continue("getOperatorPods")

\* lines 127-133: caBundle, ok = certSecret.Data[ca.crt]
ExtractBundle(cs) ==
    IF ServiceAccountRootCAKey \in DOMAIN cs.body
    THEN caBundle' = cs.body[ServiceAccountRootCAKey] /\ Continue("getOperatorPods")
    ELSE caBundle' = NoBytes /\ Return("MissingCA", FALSE, 0)

\* lines 80-86: r.Client.Get of the secret
ReconcileGet ==
    /\ pc = "idle"
    /\ passesLeft > 0
    /\ passesLeft' = passesLeft - 1
    /\ passStart' = clock
    /\ disturbed' = FALSE
    /\ t' = NoObj
    /\ caBundle' = NoBytes
    /\ leaderPod' = NoObj
    /\ task' = [n \in Tasks |-> NoTask]
    /\ groupErr' = "nil"
    /\ written' = {}
    /\ IF store["secret"].exists
       THEN /\ certSecret' = store["secret"]
            /\ startEmpty' = (DOMAIN store["secret"].body = {})
            /\ Continue("decide")
       ELSE /\ certSecret' = NoObj
            /\ startEmpty' = FALSE
            /\ Return("NotFound", FALSE, 0)
    /\ UNCHANGED <<autoGen, day, clock, store, serial, extLeft>>

\* line 88, decision false: no regeneration
SkipGenerate ==
    /\ pc = "decide"
    /\ ~shouldUpdateCertificate(certSecret)
    /\ ExtractBundle(certSecret)
    /\ UNCHANGED <<autoGen, day, clock, store, serial, certSecret, t, leaderPod, task,
                   groupErr, passesLeft, extLeft, passStart, disturbed, startEmpty, written>>

\* lines 91-94: cert.GenerateCertificateAuthority fails
GenerateCAFails ==
    /\ pc = "decide"
    /\ shouldUpdateCertificate(certSecret)
    /\ Return("GenerateCA", FALSE, 0)
    /\ UNCHANGED <<autoGen, day, clock, store, serial, certSecret, t, caBundle, leaderPod,
                   task, groupErr, passesLeft, extLeft, passStart, disturbed, startEmpty,
                   written>>

\* faulty variant: the CA certificate is written to the secret before the leaf is asked for
GenerateLeafFails_PersistCA ==
    /\ pc = "decide"
    /\ shouldUpdateCertificate(certSecret)
    /\ store["secret"].exists
    /\ store' = [store EXCEPT !["secret"].body =
                    (ServiceAccountRootCAKey :> CaPem(serial)) @@ @, !["secret"].rv = @ + 1]
    /\ Wrote("secret")
    /\ Return("GenerateLeaf", FALSE, 0)
    /\ UNCHANGED <<autoGen, day, clock, serial, certSecret, t, caBundle, leaderPod,
                   task, groupErr, passesLeft, extLeft, passStart, disturbed, startEmpty>>

\* lines 96-103: ca.GenerateCertificate fails
GenerateLeafFails ==
    /\ pc = "decide"
    /\ shouldUpdateCertificate(certSecret)
    /\ Return("GenerateLeaf", FALSE, 0)
    /\ UNCHANGED <<autoGen, day, clock, store, serial, certSecret, t, caBundle, leaderPod,
                   task, groupErr, passesLeft, extLeft, passStart, disturbed, startEmpty,
                   written>>

\* lines 91-113: a fresh CA and leaf; certSecret.Data replaced; t carries the metadata
Generate ==
    /\ pc = "decide"
    /\ shouldUpdateCertificate(certSecret)
    /\ serial' = serial + 1
    /\ certSecret' = [certSecret EXCEPT !.body = Triple(serial, day + certificateValidity)]
    /\ t' = [certSecret EXCEPT !.body = <<>>]
    /\ Continue("createOrUpdate")
    /\ UNCHANGED <<autoGen, day, clock, store, caBundle, leaderPod, task, groupErr,
                   passesLeft, extLeft, passStart, disturbed, startEmpty, written>>

\* line 115, controllerutil.CreateOrUpdate: its Get of the object
CreateOrUpdateGet ==
    /\ pc = "createOrUpdate"
    /\ IF store["secret"].exists
       THEN t' = store["secret"] /\ Continue("update")
       ELSE t' = t /\ Continue("create")
    /\ UNCHANGED <<autoGen, day, clock, store, serial, certSecret, caBundle, leaderPod,
                   task, groupErr, passesLeft, extLeft, passStart, disturbed, startEmpty,
                   written>>

\* line 115, controllerutil.CreateOrUpdate: not found, so mutate and Create
CreateOrUpdateCreate ==
    /\ pc = "create"
    /\ LET obj == [t EXCEPT !.body = certSecret.body]
           err == CreateErr("secret", obj)
       IN  IF err = "nil"
           THEN /\ store' = [store EXCEPT !["secret"] = [obj EXCEPT !.rv = 1]]
                /\ ExtractBundle(certSecret)
           ELSE /\ Return(err, FALSE, 0)
                /\ UNCHANGED <<store, caBundle>>
    /\ UNCHANGED <<autoGen, day, clock, serial, certSecret, t, leaderPod, task, groupErr,
                   passesLeft, extLeft, passStart, disturbed, startEmpty>>
    /\ Wrote("secret")

\* faulty variant: only the leaf pair is written into the Data that was read
MutateSecret_LeafOnly(read, data) ==
    [read EXCEPT !.body = [k \in {TLSCertKey, TLSPrivateKeyKey} |-> data[k]] @@ @]

\* the secret CreateOrUpdate submits: t as read, its Data replaced (line 116)
MutateSecret(read, data) == [read EXCEPT !.body = data]

\* line 115, controllerutil.CreateOrUpdate: found, so mutate and Update
CreateOrUpdateUpdate ==
    /\ pc = "update"
    /\ LET obj == MutateSecret(t, certSecret.body)
           err == IF obj = t THEN "nil" ELSE UpdateErr("secret", obj)
       IN  IF err = "nil"
           THEN /\ store' = IF obj = t THEN store
                            ELSE [store EXCEPT !["secret"] = Written("secret", obj)]
                /\ ExtractBundle(certSecret)
           ELSE /\ Return(err, FALSE, 0)
                /\ UNCHANGED <<store, caBundle>>
    /\ UNCHANGED <<autoGen, day, clock, serial, certSecret, t, leaderPod, task, groupErr,
                   passesLeft, extLeft, passStart, disturbed, startEmpty>>
    /\ Wrote("secret")

\* lines 317-326: getOperatorPods, the Get of the leader pod
GetLeaderPod ==
    /\ pc = "getOperatorPods"
    /\ IF store[Hostname].exists
       THEN leaderPod' = store[Hostname] /\ Continue("list")
       ELSE leaderPod' = NoObj /\ Return("NotFound", FALSE, 0)
    /\ UNCHANGED <<autoGen, day, clock, store, serial, certSecret, t, caBundle, task,
                   groupErr, passesLeft, extLeft, passStart, disturbed, startEmpty, written>>

\* the pods r.Client.List returns for the leader's labels
MatchingPods(labels) == {p \in Pods : store[p].exists /\ store[p].body.labels = labels}

\* lines 328-161: the List of the pods, then group.Go for every task
ListPods ==
    /\ pc = "list"
    /\ \E ok \in BOOLEAN :
         IF ok
         THEN /\ task' = [n \in Tasks |->
                            IF n \in Consumers \/ n \in MatchingPods(leaderPod.body.labels)
                            THEN [st |-> "get", tries |-> 1, obj |-> NoObj, err |-> "nil"]
                            ELSE NoTask]
              /\ Continue("wait")
         ELSE /\ task' = task
              /\ Return("ListFailed", FALSE, 0)
    /\ UNCHANGED <<autoGen, day, clock, store, serial, certSecret, t, caBundle, leaderPod,
                   groupErr, passesLeft, extLeft, passStart, disturbed, startEmpty, written>>

(***************************************************************************)
(* The tasks of the errgroup (lines 142-161), each inside                  *)
(* retry.RetryOnConflict.                                                  *)
(***************************************************************************)
Hooks == {"mw", "vw"}

\* the attempts retry.RetryOnConflict makes: DefaultRetry for a pod (line 291),
\* DefaultBackoff for the others (lines 215, 250, 271)
Budget(n) == IF n \in Pods THEN DefaultRetrySteps ELSE DefaultBackoffSteps

\* faulty variant: the update is not wrapped in a retry
Retries_Never(n, e) == FALSE

\* faulty variant: every error is retried, not only a conflict
Retries_AnyError(n, e) == e # "nil" /\ task[n].tries < Budget(n)

\* retry.RetryOnConflict: whether the function is run again after error e
Retries(n, e) == e = "Conflict" /\ task[n].tries < Budget(n)

\* faulty variant: the error a task returns is not kept by the group
FirstError_Lost(e) == groupErr

\* errgroup.Group.Go: the first error returned by a task is kept
FirstError(e) == IF groupErr = "nil" THEN e ELSE groupErr

\* the function handed to retry.RetryOnConflict returned e
Finish(n, e) ==
    IF e = "nil"
    THEN /\ task' = [task EXCEPT ![n] = [st |-> "ok", tries |-> @.tries, obj |-> NoObj,
                                          err |-> "nil"]]
         /\ groupErr' = groupErr
    ELSE IF Retries(n, e)
    THEN /\ task' = [task EXCEPT ![n] = [st |-> "get", tries |-> @.tries + 1, obj |-> NoObj,
                                          err |-> "nil"]]
         /\ groupErr' = groupErr
    ELSE /\ task' = [task EXCEPT ![n] = [st |-> "err", tries |-> @.tries, obj |-> NoObj,
                                          err |-> e]]
         /\ groupErr' = FirstError(e)

Frame == UNCHANGED <<autoGen, day, serial, pc, certSecret, t, caBundle, leaderPod, result,
                     passesLeft, extLeft, passStart, disturbed, quiet, startEmpty>>

\* faulty variant: the CA bundle of every entry is set
SetBundles_All(hooks, b) == [i \in DOMAIN hooks |-> [hooks[i] EXCEPT !.caBundle = b]]

\* faulty variant: a CA bundle is set only where none is present
SetBundles_OnlyEmpty(hooks, b) ==
    [i \in DOMAIN hooks |->
        IF hooks[i].svc /\ hooks[i].caBundle = NoBytes
        THEN [hooks[i] EXCEPT !.caBundle = b] ELSE hooks[i]]

\* lines 258-263 and 279-284: the CA bundle of every entry with a service reference
SetBundles(hooks, b) ==
    [i \in DOMAIN hooks |-> IF hooks[i].svc THEN [hooks[i] EXCEPT !.caBundle = b] ELSE hooks[i]]

\* lines 251-257 and 272-278: r.Get of the admission configuration
HookGet(n) ==
    /\ pc = "wait"
    /\ task[n].st = "get"
    /\ IF store[n].exists
       THEN /\ task' = [task EXCEPT ![n].st = "put", ![n].obj = store[n]]
            /\ groupErr' = groupErr
       ELSE Finish(n, "NotFound")
    /\ UNCHANGED <<store, clock>>
    /\ UNCHANGED written
    /\ Frame

\* lines 258-265 and 279-286: mutate the entries and r.Update
HookUpdate(n) ==
    /\ pc = "wait"
    /\ task[n].st = "put"
    /\ LET obj == [task[n].obj EXCEPT !.body = SetBundles(@, caBundle)]
           err == UpdateErr(n, obj)
       IN  /\ store' = IF err = "nil" THEN [store EXCEPT ![n] = Written(n, obj)] ELSE store
           /\ Finish(n, err)
    /\ UNCHANGED clock
    /\ Wrote(n)
    /\ Frame

\* lines 216-222: r.Get of the CRD
CrdGet ==
    /\ pc = "wait"
    /\ task["crd"].st = "get"
    /\ IF store["crd"].exists
       THEN /\ task' = [task EXCEPT !["crd"].st = "get2", !["crd"].obj = store["crd"]]
            /\ groupErr' = groupErr
       ELSE Finish("crd", "NotFound")
    /\ UNCHANGED <<store, clock>>
    /\ UNCHANGED written
    /\ Frame

\* line 224, controllerutil.CreateOrUpdate: its Get of the CRD
CrdCreateOrUpdateGet ==
    /\ pc = "wait"
    /\ task["crd"].st = "get2"
    /\ IF store["crd"].exists
       THEN task' = [task EXCEPT !["crd"].st = "put", !["crd"].obj = store["crd"]]
       ELSE task' = [task EXCEPT !["crd"].st = "create"]
    /\ UNCHANGED <<store, clock, groupErr>>
    /\ UNCHANGED written
    /\ Frame

\* faulty variant: the conversion block keeps the CA bundle that was read
MutateCrd_KeepBundle(read, b) == [read EXCEPT !.body = WebhookConversion(read.body.caBundle)]

\* lines 225-239: the conversion block the mutate function sets
MutateCrd(read, b) == [read EXCEPT !.body = WebhookConversion(b)]

\* line 224, controllerutil.CreateOrUpdate: not found, so mutate and Create
CrdCreate ==
    /\ pc = "wait"
    /\ task["crd"].st = "create"
    /\ LET obj == MutateCrd(task["crd"].obj, caBundle)
           err == CreateErr("crd", obj)
       IN  /\ store' = IF err = "nil" THEN [store EXCEPT !["crd"] = [obj EXCEPT !.rv = 1]]
                       ELSE store
           /\ Finish("crd", err)
    /\ UNCHANGED clock
    /\ Wrote("crd")
    /\ Frame

\* line 224, controllerutil.CreateOrUpdate: found, so mutate and Update unless equal
CrdUpdate ==
    /\ pc = "wait"
    /\ task["crd"].st = "put"
    /\ LET obj == MutateCrd(task["crd"].obj, caBundle)
           err == IF obj = task["crd"].obj THEN "nil" ELSE UpdateErr("crd", obj)
       IN  /\ store' = IF err = "nil" /\ obj # task["crd"].obj
                       THEN [store EXCEPT !["crd"] = Written("crd", obj)]
                       ELSE store
           /\ Finish("crd", err)
    /\ UNCHANGED clock
    /\ Wrote("crd")
    /\ Frame

\* lines 293-299: r.Client.Get of the pod; a NotFound error is passed over and p
\* stays the zero Pod
PodGet(p) ==
    /\ pc = "wait"
    /\ task[p].st = "get"
    /\ task' = [task EXCEPT ![p].st = "put",
                            ![p].obj = IF store[p].exists THEN store[p] ELSE NoObj]
    /\ UNCHANGED <<store, clock, groupErr>>
    /\ UNCHANGED written
    /\ Frame

\* faulty variant: the pod is submitted with the annotation alone
Annotate_Bare(read, now) == [read EXCEPT !.body = PodBody("", now), !.other = 0]

\* line 305: the annotation set on the pod read
Annotate(read, now) == [read EXCEPT !.body = PodBody(read.body.labels, now)]

\* lines 301-313: set the annotation to time.Now() and r.Client.Update; the zero
\* Pod has no name and the request for it is refused
PodUpdate(p) ==
    /\ pc = "wait"
    /\ task[p].st = "put"
    /\ clock' = clock + 1
    /\ IF task[p].obj.exists
       THEN LET obj == Annotate(task[p].obj, clock + 1)
                err == UpdateErr(p, obj)
            IN  /\ store' = IF err = "nil" THEN [store EXCEPT ![p] = Written(p, obj)]
                            ELSE store
                /\ Finish(p, err)
       ELSE /\ store' = store
            /\ Finish(p, "Invalid")
    /\ Wrote(p)
    /\ Frame

\* faulty variant: the lookahead is not subtracted
RequeueAfter_NoLookahead(crt) == crt.notAfter - day

\* lines 167-180: the requeue duration, in days
RequeueAfter(crt) == (crt.notAfter - day) - certificateReconciliationThreshold

\* faulty variant: the join returns as soon as one goroutine has failed
AllReturned_FailFast ==
    \/ \A n \in Tasks : task[n].st \in {"off", "ok", "err"}
    \/ \E n \in Tasks : task[n].st = "err"

\* whether group.Wait returns: every goroutine started has returned
AllReturned == \A n \in Tasks : task[n].st \in {"off", "ok", "err"}

\* lines 163-182: group.Wait and the result of the pass
Wait ==
    /\ pc = "wait"
    /\ AllReturned
    /\ IF groupErr # "nil"
       THEN Return(groupErr, FALSE, 0)
       ELSE IF autoGen
       THEN IF ParsesCert(Field(certSecret.body, TLSCertKey))
            THEN Return("nil", TRUE, RequeueAfter(Field(certSecret.body, TLSCertKey)))
            ELSE Return("ParseError", FALSE, 0)
       ELSE Return("nil", FALSE, 0)
    /\ UNCHANGED <<autoGen, day, clock, store, serial, certSecret, t, caBundle, leaderPod,
                   task, groupErr, passesLeft, extLeft, passStart, disturbed, startEmpty,
                   written>>

(***************************************************************************)
(* The other actors of the cluster, and time.                              *)
(***************************************************************************)
EnvFrame == UNCHANGED <<autoGen, day, clock, serial, pc, certSecret, t, caBundle, leaderPod,
                        task, groupErr, result, passesLeft, passStart, startEmpty, written>>

\* another actor changes a field of object n that the reconciler does not own
ExtTouch(n) ==
    /\ extLeft > 0
    /\ store[n].exists
    /\ store' = [store EXCEPT ![n].other = @ + 1, ![n].rv = @ + 1]
    /\ extLeft' = extLeft - 1
    /\ disturbed' = TRUE
    /\ quiet' = FALSE
    /\ EnvFrame

\* another actor deletes object n
ExtDelete(n) ==
    /\ extLeft > 0
    /\ store[n].exists
    /\ store' = [store EXCEPT ![n] = NoObj]
    /\ extLeft' = extLeft - 1
    /\ disturbed' = TRUE
    /\ quiet' = FALSE
    /\ EnvFrame

\* whether a goroutine of the reconciler holds a read of object n that is still
\* the stored version, so that a change by another actor makes its submit conflict
HoldsFresh(n) ==
    \/ n = "secret" /\ pc = "update" /\ t.rv = store[n].rv
    \/ /\ n \in Tasks
       /\ pc = "wait"
       /\ task[n].st = "put"
       /\ task[n].obj.exists
       /\ task[n].obj.rv = store[n].rv

\* another actor changes object n between a read and the submit that follows it
ExtConflict(n) ==
    /\ HoldsFresh(n)
    /\ ExtTouch(n)

\* another actor installs object n again after it was missing (the chart is
\* applied again), with the content of a fresh installation
ExtRestore(n) ==
    /\ ~store[n].exists
    /\ store' = [store EXCEPT ![n] = InitialStore(<<>>, {})[n]]
    /\ disturbed' = TRUE
    /\ quiet' = FALSE
    /\ UNCHANGED extLeft
    /\ EnvFrame

\* a day passes between two passes
Tick ==
    /\ pc = "idle"
    /\ day < MaxDay
    /\ day' = day + 1
    /\ quiet' = FALSE
    /\ UNCHANGED <<autoGen, clock, store, serial, pc, certSecret, t, caBundle, leaderPod,
                   task, groupErr, result, passesLeft, extLeft, passStart, disturbed,
                   startEmpty, written>>

\* the steps of a pass, but for the Create branches of controllerutil.CreateOrUpdate,
\* which are taken only when another actor deletes the object between two reads
ReconcileFound ==
    \/ ReconcileGet
    \/ SkipGenerate
    \/ GenerateCAFails
    \/ GenerateLeafFails
    \/ Generate
    \/ CreateOrUpdateGet
    \/ CreateOrUpdateUpdate
    \/ GetLeaderPod
    \/ ListPods
    \/ \E n \in Hooks : HookGet(n)
    \/ \E n \in Hooks : HookUpdate(n)
    \/ CrdGet
    \/ CrdCreateOrUpdateGet
    \/ CrdUpdate
    \/ \E p \in Pods : PodGet(p)
    \/ \E p \in Pods : PodUpdate(p)
    \/ Wait

Reconcile ==
    \/ ReconcileFound
    \/ CreateOrUpdateCreate
    \/ CrdCreate

Next ==
    \/ Reconcile
    \/ \E n \in Names : ExtTouch(n)
    \/ \E n \in Names : ExtDelete(n)

Spec == Init /\ [][Next]_vars

\* other actors that keep racing the reconciler's updates, in a cluster that may
\* lack an admission configuration
InitRetry == InitWith({TRUE} \X {<<>>, Triple(1, 10)} \X {{}, {"vw"}}, DefaultRetrySteps, 1)

NextRetry ==
    \/ ReconcileFound
    \/ \E n \in Names : ExtConflict(n)

SpecRetry == InitRetry /\ [][NextRetry]_vars

\* no other actor: passes in succession, days passing between them
NextQuiet == ReconcileFound \/ Tick

SpecQuiet == InitQuiet /\ [][NextQuiet]_vars

\* a cluster that lacks one of the consumer objects, which another actor installs
\* again at some time: passes in succession, the first of which may fail
InitConverge ==
    InitWith(BOOLEAN \X {<<>>, Triple(1, 10)} \X {{"mw"}, {"vw"}, {"crd"}}, 0, MaxPass)

NextConverge ==
    \/ ReconcileFound
    \/ \E n \in Consumers : ExtRestore(n)

SpecConverge == InitConverge /\ [][NextConverge]_vars

(***************************************************************************)
(* Claims.                                                                 *)
(***************************************************************************)
\* whether every entry of admission configuration n that references the internal
\* service carries bundle b
HooksCarry(n, b) ==
    \A i \in DOMAIN store[n].body : store[n].body[i].svc => store[n].body[i].caBundle = b

\* C1: after a pass that returns success, started from a trust secret without any
\* field with auto-generation enabled and undisturbed by other actors, the secret
\* holds a leaf certificate, a private key and a CA certificate; every internal
\* entry of both admission configurations and the CRD conversion block carry the
\* secret's CA certificate; and the marker of every discovered pod is newer than
\* the start of the pass.
C1_EndToEnd ==
    (pc = "idle" /\ result.err = "nil" /\ startEmpty /\ autoGen /\ ~disturbed) =>
        LET d == store["secret"].body IN
        /\ DOMAIN d = {TLSCertKey, TLSPrivateKeyKey, ServiceAccountRootCAKey}
        /\ d[TLSCertKey].kind = "crt"
        /\ d[TLSPrivateKeyKey].kind = "key"
        /\ d[ServiceAccountRootCAKey].kind = "ca"
        /\ \A n \in Hooks : HooksCarry(n, d[ServiceAccountRootCAKey])
        /\ store["crd"].body.strategy = "Webhook"
        /\ store["crd"].body.caBundle = d[ServiceAccountRootCAKey]
        /\ \A p \in Pods : task[p].st # "off" => store[p].body.marker > passStart

\* a successful undisturbed pass from the empty secret that notified the sibling
C1_Witness ==
    /\ pc = "idle"
    /\ result.err = "nil"
    /\ startEmpty
    /\ ~disturbed
    /\ task["p2"].st = "ok"

\* the material for which the claim says a rotation is required
RotationRequired(data) ==
    \/ ServiceAccountRootCAKey \notin DOMAIN data
    \/ Field(data, TLSCertKey).kind # "crt"
    \/ Field(data, TLSPrivateKeyKey).kind # "key"
    \/ Field(data, TLSCertKey).notAfter - day < certificateExpirationThreshold
    \/ Field(data, TLSCertKey).serial # Field(data, TLSPrivateKeyKey).serial

\* C2: the pass regenerates (or fails in generating) exactly when auto-generation
\* is enabled and the CA certificate field is absent, or the pair does not parse,
\* or less than the expiration threshold remains before NotAfter, or the key does
\* not match the certificate; with auto-generation disabled it never does.
C2_RotationDecision ==
    [][pc = "decide" =>
         ((pc' = "createOrUpdate" \/ result'.err \in {"GenerateCA", "GenerateLeaf"})
            <=> (autoGen /\ RotationRequired(certSecret.body)))]_vars

\* a regeneration decided for a stored pair that parses and matches but expires
\* within the threshold
C2_Witness ==
    /\ pc = "createOrUpdate"
    /\ ServiceAccountRootCAKey \in DOMAIN store["secret"].body
    /\ ParsesPair(Field(store["secret"].body, TLSCertKey),
                  Field(store["secret"].body, TLSPrivateKeyKey))
    /\ Field(store["secret"].body, TLSCertKey).serial
         = Field(store["secret"].body, TLSPrivateKeyKey).serial
    /\ Field(store["secret"].body, TLSCertKey).notAfter - day < certificateExpirationThreshold

\* whether data is the complete material of one single regeneration
IsTriple(data) ==
    /\ DOMAIN data = {TLSCertKey, TLSPrivateKeyKey, ServiceAccountRootCAKey}
    /\ data[TLSCertKey].kind = "crt"
    /\ data[TLSPrivateKeyKey].kind = "key"
    /\ data[ServiceAccountRootCAKey].kind = "ca"
    /\ data[TLSCertKey].serial = data[TLSPrivateKeyKey].serial
    /\ data[TLSCertKey].serial = data[ServiceAccountRootCAKey].serial

\* C3: the reconciler never overwrites the trust secret partially: whenever a
\* step of a pass changes the stored secret, the secret then holds exactly the
\* three fields of the one regeneration of that pass; and a pass that returns
\* between the decision and the end of the commit leaves the stored secret as it
\* was.
C3_AtomicPersistence ==
    [][/\ (extLeft' = extLeft /\ store'["secret"] # store["secret"]) =>
            /\ IsTriple(store'["secret"].body)
            /\ store'["secret"].body = certSecret.body
       /\ (pc \in {"decide", "createOrUpdate", "create", "update"} /\ pc' = "idle") =>
            store'["secret"] = store["secret"]]_vars

\* the regenerated material has been committed over a secret that held other data
C3_Witness ==
    /\ pc = "getOperatorPods"
    /\ "secret" \in written
    /\ ~startEmpty
    /\ IsTriple(store["secret"].body)
    /\ store["secret"].body = certSecret.body

\* C4: a pass that returns the error of a failed CA generation or leaf generation
\* has changed no object: the trust secret, both admission configurations, the CRD
\* and every pod are as the pass found them.
C4_GenerationFailureAborts ==
    (pc = "idle" /\ result.err \in {"GenerateCA", "GenerateLeaf"}) =>
        /\ written = {}
        /\ \A n \in Tasks : task[n].st = "off"

\* a pass has returned the error of a failed leaf generation
C4_Witness ==
    /\ pc = "idle"
    /\ result.err = "GenerateLeaf"
    /\ autoGen

\* C5: an accepted update of an admission configuration sets the CA bundle of
\* every entry that references the internal service to the bundle of the pass and
\* leaves every other entry, and the number and order of the entries, as they were.
C5_SelectiveUpdate ==
    [][\A n \in Hooks :
         (task[n].st = "put" /\ task'[n].st = "ok") =>
            /\ Len(store'[n].body) = Len(store[n].body)
            /\ \A i \in DOMAIN store[n].body :
                 IF store[n].body[i].svc
                 THEN store'[n].body[i] = [store[n].body[i] EXCEPT !.caBundle = caBundle]
                 ELSE store'[n].body[i] = store[n].body[i]]_vars

\* the validating configuration, which mixes internal and external entries, has
\* been updated with a new bundle
C5_Witness ==
    /\ task["vw"].st = "ok"
    /\ "vw" \in written
    /\ caBundle.kind = "ca"
    /\ store["vw"].body[1] = Hook(TRUE, caBundle)
    /\ store["vw"].body[2] = Hook(FALSE, ExternalCA)
    /\ store["vw"].body[3] = Hook(TRUE, caBundle)

\* whether consumer object obj carries bundle b where the reconciler sets it
Carries(n, obj, b) ==
    IF n = "crd"
    THEN obj.body = WebhookConversion(b)
    ELSE \A i \in DOMAIN obj.body : obj.body[i].svc => obj.body[i].caBundle = b

\* whether the submit of consumer task n is made with a read that another actor
\* has overtaken
StaleSubmit(n) ==
    /\ store[n].exists
    /\ task[n].obj.rv # store[n].rv
    /\ ~(n = "crd" /\ task[n].obj.body = WebhookConversion(caBundle))

\* C6: when another actor has changed a consumer object between the read and the
\* submit of an update, the submit is rejected and writes nothing, and the whole
\* cycle starts again with a new read (or the task fails once the budget is
\* used up); a submit that is accepted keeps the other actor's fields and carries
\* the bundle of the pass, so no change of another actor is overwritten.
C6_ConflictResilience ==
    [][\A n \in Consumers :
         (task[n].st = "put" /\ task'[n] # task[n]) =>
            IF StaleSubmit(n)
            THEN /\ store'[n] = store[n]
                 /\ \/ task'[n].st = "get" /\ task'[n].tries = task[n].tries + 1
                    \/ /\ task'[n].st = "err"
                       /\ task'[n].err = "Conflict"
                       /\ task[n].tries = Budget(n)
            ELSE store[n].exists =>
                 /\ task'[n].st = "ok"
                 /\ store'[n].other = store[n].other
                 /\ Carries(n, store'[n], caBundle)]_vars

\* the CRD update met one conflict, read again and committed: the stored CRD
\* holds the other actor's change and the bundle
C6_Witness ==
    /\ task["crd"].st = "ok"
    /\ task["crd"].tries = 2
    /\ store["crd"].other = 1
    /\ caBundle.kind = "ca"
    /\ Carries("crd", store["crd"], caBundle)

\* C7 (as stated): once a task has failed hard, no other task commits a further
\* mutation or starts a further cycle, and the pass returns that first error.
C7_FailFast ==
    [][(pc = "wait" /\ groupErr # "nil" /\ extLeft' = extLeft) =>
          /\ \A n \in Names : store'[n] = store[n]
          /\ \A n \in Tasks : task[n].st = "get" => task'[n] = task[n]
          /\ pc' = "idle" => result'.err = groupErr]_vars

\* C7 (amended): the join waits for every task: the pass returns only when every
\* task started has returned, it returns the first error recorded, that error is
\* not replaced by a later one, and a task that has failed takes no further step;
\* the failure of one task does not stop the others.
C7_WaitAll ==
    [][pc = "wait" =>
          /\ pc' = "idle" =>
                /\ \A n \in Tasks : task[n].st \in {"off", "ok", "err"}
                /\ result'.err = groupErr
          /\ groupErr # "nil" => groupErr' = groupErr
          /\ \A n \in Tasks : task[n].st = "err" => task'[n] = task[n]]_vars

\* a pass has returned the error of a failed task while another task of the same
\* pass has committed its update
C7_Witness ==
    /\ pc = "idle"
    /\ result.err # "nil"
    /\ \E n \in Tasks : task[n].st = "err" /\ task[n].err = result.err
    /\ \E n \in Tasks : task[n].st = "ok" /\ n \in written

\* whether the last pass returned from the discovery of the pods with an error
DiscoveryFailed ==
    /\ pc = "idle"
    /\ result.err \in {"NotFound", "ListFailed"}
    /\ caBundle # NoBytes
    /\ \A n \in Tasks : task[n].st = "off"

\* C8: when the discovery of the pods fails, the three consumer updates are still
\* performed in that pass with the current CA bundle.
C8_DiscoveryFailureTolerated ==
    DiscoveryFailed =>
        \A n \in Consumers : store[n].exists => Carries(n, store[n], caBundle)

\* C9 (as stated): after a successful pass, a second pass that nothing precedes
\* changes no object, the markers of the pods included, and decides not to rotate.
C9_Idempotent ==
    [][quiet =>
          /\ store' = store
          /\ pc = "decide" => pc' = "getOperatorPods"]_vars

\* C9 (amended): after a successful pass, a second pass that nothing precedes
\* decides not to rotate and changes neither the trust secret nor an admission
\* configuration nor the CRD; of a pod it changes the marker only, which it sets
\* to its own reading of the clock.
C9_IdempotentButMarkers ==
    [][quiet =>
          /\ \A n \in {"secret"} \cup Consumers : store'[n] = store[n]
          /\ \A p \in Pods :
                \/ store'[p] = store[p]
                \/ /\ store'[p] = [store[p] EXCEPT !.body.marker = clock', !.rv = @ + 1]
                   /\ clock' > clock
          /\ pc = "decide" => pc' = "getOperatorPods"]_vars

\* the second pass has written the sibling's marker again and nothing else
C9_Witness ==
    /\ quiet
    /\ pc = "wait"
    /\ \A n \in Tasks : task[n].st = "ok"
    /\ written = Pods

\* whether the request task n is about to make meets an error that is no conflict
FailsHard(n) ==
    \/ n \in Consumers /\ task[n].st = "get" /\ ~store[n].exists
    \/ n \in Hooks /\ task[n].st = "put" /\ ~store[n].exists
    \/ n \in Pods /\ task[n].st = "put" /\ (~task[n].obj.exists \/ ~store[n].exists)

\* C10: every update task makes at most its budget of attempts (4 for a consumer,
\* 5 for a pod); it makes a further attempt only after a conflict; an error that
\* is no conflict ends it at once; a conflict ends it only when the budget is
\* used up; and a pass with a failed task returns an error.
C10_BoundedRetry ==
    /\ [](\A n \in Tasks :
            /\ task[n].tries <= Budget(n)
            /\ (task[n].st = "err" /\ task[n].err = "Conflict") => task[n].tries = Budget(n)
            /\ (pc = "idle" /\ task[n].st = "err") => result.err # "nil")
    /\ [][\A n \in Tasks :
            /\ (task[n].st # "off" /\ task'[n].tries # task[n].tries /\ pc' = "wait") =>
                  /\ task'[n].tries = task[n].tries + 1
                  /\ task[n].st = "put"
                  /\ task[n].obj.exists
                  /\ store[n].exists
                  /\ task[n].obj.rv # store[n].rv
            /\ (FailsHard(n) /\ task'[n] # task[n] /\ pc' = "wait") =>
                  /\ task'[n].st = "err"
                  /\ task'[n].err # "Conflict"
                  /\ task'[n].tries = task[n].tries
            /\ (task[n].st = "err" /\ pc' = "wait") => task'[n] = task[n]]_vars

\* the update of the validating configuration has used up its budget on conflicts
\* and the pass has returned the conflict
C10_Witness ==
    /\ pc = "idle"
    /\ result.err = "Conflict"
    /\ task["vw"].st = "err"
    /\ task["vw"].err = "Conflict"
    /\ task["vw"].tries = DefaultBackoffSteps

\* C11: a pass returns success only from the join, with every task it started
\* returned and none of them in error: in a pass that has returned no error the
\* three consumer tasks have completed successfully and every pod task started
\* has completed successfully; none is still running and none has failed.
C11_SuccessAfterJoin ==
    /\ [](pc = "idle" /\ result.err = "nil" =>
            /\ \A n \in Consumers : task[n].st = "ok"
            /\ \A p \in Pods : task[p].st \in {"off", "ok"}
            /\ groupErr = "nil")
    /\ [][(pc' = "idle" /\ pc # "idle" /\ result'.err = "nil") =>
            /\ pc = "wait"
            /\ \A n \in Tasks : task[n].st \notin {"get", "get2", "put", "create", "err"}]_vars

\* a pass has returned success although another actor was at work: a task met a
\* conflict, read again and completed before the join let the pass return
C11_Witness ==
    /\ pc = "idle"
    /\ result.err = "nil"
    /\ disturbed
    /\ \E n \in Tasks : task[n].st = "ok" /\ task[n].tries = 2
    /\ \A n \in Tasks : task[n].st = "ok"

\* whether consumer object n is stored and carries the CA certificate of the
\* stored trust secret
CarriesSecretCA(n) ==
    /\ store[n].exists
    /\ store["secret"].exists
    /\ ServiceAccountRootCAKey \in DOMAIN store["secret"].body
    /\ Carries(n, store[n], store["secret"].body[ServiceAccountRootCAKey])

\* C12: a pass that returns the error of a failed consumer update undoes nothing:
\* the return changes no object, and every consumer whose task completed is
\* stored with the bundle of the pass; and when a pass that follows a failed one
\* returns success, the two admission configurations and the CRD all carry the CA
\* certificate of the trust secret.
C12_Reconverges ==
    [][(pc = "wait" /\ pc' = "idle") =>
          /\ store' = store
          /\ \A n \in Consumers : task[n].st = "ok" => Carries(n, store'[n], caBundle)
          /\ (result.err \notin {"nil", "none"} /\ result'.err = "nil") =>
                \A n \in Consumers : CarriesSecretCA(n)']_vars

\* the pass after a failed one is about to return success: it has written the
\* validating configuration, which was missing in the failed pass, and has left
\* the mutating configuration and the CRD, committed by the failed pass, as they
\* were
C12_Witness ==
    /\ pc = "wait"
    /\ result.err = "NotFound"
    /\ groupErr = "nil"
    /\ \A n \in Tasks : task[n].st = "ok"
    /\ "vw" \in written
    /\ "mw" \notin written
    /\ "crd" \notin written
    /\ \A n \in Consumers : CarriesSecretCA(n)

\* C13: a pass that returns success with auto-generation enabled asks for a
\* requeue after (NotAfter of the leaf certificate of the stored secret minus now)
\* minus the lookahead of 4 days, which is 6 days for a certificate that expires
\* in 10 days and validity minus lookahead for a certificate generated in this
\* pass; with auto-generation disabled it asks for no requeue and gives no
\* duration.
C13_RequeueDuration ==
    [][(pc = "wait" /\ pc' = "idle" /\ result'.err = "nil") =>
          LET crt == Field(store["secret"].body, TLSCertKey) IN
          IF autoGen
          THEN /\ result'.requeue
               /\ result'.after = (crt.notAfter - day) - certificateReconciliationThreshold
               /\ crt.notAfter = day + 10 => result'.after = 6
               /\ "secret" \in written =>
                    /\ crt = CrtPem(serial - 1, day + certificateValidity)
                    /\ result'.after = certificateValidity - certificateReconciliationThreshold
          ELSE /\ ~result'.requeue
               /\ result'.after = 0]_vars

\* a pass has returned success on the day a stored certificate has 10 days left,
\* with a requeue after 6 days
C13_Witness ==
    /\ pc = "idle"
    /\ result.err = "nil"
    /\ autoGen
    /\ Field(store["secret"].body, TLSCertKey).notAfter = day + 10
    /\ written = Pods
    /\ result.requeue
    /\ result.after = 6

\* C14 (first half): a pass with auto-generation enabled that finds no trust
\* secret creates it: when such a pass, undisturbed by other actors, has returned,
\* the secret is stored and holds the three fields of one regeneration.
C14_CreateIfAbsent ==
    (pc = "idle" /\ result.err # "none" /\ autoGen /\ certSecret = NoObj /\ ~disturbed) =>
        /\ store["secret"].exists
        /\ IsTriple(store["secret"].body)

\* C15: the commit of the regenerated material to the trust secret restarts on a
\* conflict: when the Update of the secret is submitted with a version another
\* actor has overtaken, the pass reads the secret again instead of returning.
C15_SecretCommitRetried ==
    [][(pc = "update" /\ store["secret"].exists /\ t.rv # store["secret"].rv
          /\ extLeft' = extLeft) =>
            /\ pc' = "createOrUpdate"
            /\ result' = result]_vars

\* C16: of the pods the reconciler changes the marker only: a step of the
\* reconciler that changes a stored pod is the update of the task of that pod,
\* and it stores the pod as it is stored but for the marker, set to the reading
\* of the clock just taken (labels and the fields of other actors are kept); no
\* step of the reconciler creates or deletes a pod; and after a pass that
\* returned success every pod discovered carries a marker of that pass.
C16_MarkerOnly ==
    /\ [][\A p \in Pods :
            (extLeft' = extLeft /\ store'[p] # store[p]) =>
               /\ pc = "wait"
               /\ task[p].st = "put"
               /\ task'[p].st = "ok"
               /\ \A q \in Pods \ {p} : store'[q] = store[q]
               /\ store[p].exists
               /\ store'[p] = [store[p] EXCEPT !.body.marker = clock', !.rv = @ + 1]
               /\ clock' > clock]_vars
    /\ [](pc = "idle" /\ result.err = "nil" =>
            \A p \in Pods : (task[p].st # "off" /\ store[p].exists) =>
               store[p].body.marker > passStart)

\* the sibling pod, which another actor had changed, has been notified: it holds
\* the other actor's change, its labels and a marker of this pass
C16_Witness ==
    /\ task["p2"].st = "ok"
    /\ store["p2"].exists
    /\ store["p2"].other = 1
    /\ store["p2"].body.labels = "capsule"
    /\ store["p2"].body.marker > passStart
    /\ store["p1"].body.marker > passStart

\* C17: a pass that returns success with auto-generation enabled returns a requeue
\* duration that is strictly positive.
C17_PositiveRequeue ==
    (pc = "idle" /\ result.err = "nil" /\ autoGen) =>
        /\ result.requeue
        /\ result.after > 0

\* whether the current pass has regenerated the material (t is built at line 113)
Rotated == t.exists

\* C18: the bundle of a pass is the CA certificate of the secret once committed:
\* in a pass that rotates, propagation starts only after the reconciler has
\* written the secret, and the bundle is the CA certificate generated in that
\* pass, not the one read; every write of a consumer object stores the bundle of
\* the pass, and every write of a consumer or of a pod happens after the commit;
\* and a pass that returns the error of the commit has started no task and
\* changed no object.
C18_CommitBeforePropagation ==
    /\ []((pc \in {"getOperatorPods", "list", "wait"} /\ Rotated) =>
            /\ "secret" \in written
            /\ caBundle = CaPem(serial - 1)
            /\ caBundle = certSecret.body[ServiceAccountRootCAKey])
    /\ []((pc \in {"getOperatorPods", "list", "wait"} /\ ~Rotated) =>
            caBundle = Field(certSecret.body, ServiceAccountRootCAKey))
    /\ [][\A n \in Tasks :
            (extLeft' = extLeft /\ store'[n] # store[n]) =>
               /\ pc = "wait"
               /\ Rotated => "secret" \in written
               /\ n \in Consumers => Carries(n, store'[n], caBundle)]_vars
    /\ [][(pc \in {"createOrUpdate", "create", "update"} /\ pc' = "idle") =>
            /\ written' = {}
            /\ \A n \in Tasks : task'[n].st = "off"
            /\ \A n \in Names : store'[n] = store[n]]_vars

\* a pass that rotated over stored material has committed the new secret and then
\* written a consumer with the new CA certificate, which is not the one it read
C18_Witness ==
    /\ pc = "wait"
    /\ Rotated
    /\ ~startEmpty
    /\ "secret" \in written
    /\ "mw" \in written
    /\ caBundle = CaPem(serial - 1)
    /\ caBundle # CaPem(1)
    /\ Carries("mw", store["mw"], caBundle)

\* C19: a pod deleted between its discovery and the update of its marker is
\* passed over: the task that read no pod completes without error, so that the
\* pass does not fail for it, and it changes no stored pod.
C19_DeletedMemberTolerated ==
    [][\A p \in Pods :
         (pc = "wait" /\ task[p].st = "put" /\ ~task[p].obj.exists /\ task'[p] # task[p]) =>
            /\ task'[p].st = "ok"
            /\ groupErr' = groupErr
            /\ \A q \in Pods : store'[q] = store[q]]_vars

\* C20: with auto-generation disabled, a pass that reads a trust secret without
\* CA certificate returns an error at once: it has made no request for the pods,
\* started no task, changed no object, and asks for no requeue.
C20_MissingCAAborts ==
    /\ [][(pc = "decide" /\ ~autoGen
             /\ ServiceAccountRootCAKey \notin DOMAIN certSecret.body) =>
            /\ pc' = "idle"
            /\ result' = [err |-> "MissingCA", requeue |-> FALSE, after |-> 0]
            /\ store' = store]_vars
    /\ [](pc = "idle" /\ result.err = "MissingCA" =>
            /\ ~autoGen
            /\ leaderPod = NoObj
            /\ written = {}
            /\ \A n \in Tasks : task[n].st = "off"
            /\ ~result.requeue
            /\ result.after = 0)

\* a pass with auto-generation disabled has returned the error of the missing CA
\* certificate for a secret that holds a leaf pair only
C20_Witness ==
    /\ pc = "idle"
    /\ result.err = "MissingCA"
    /\ ~autoGen
    /\ store["secret"].exists
    /\ DOMAIN store["secret"].body = {TLSCertKey, TLSPrivateKeyKey}
    /\ store["crd"].body = NoConversion

====
